---- MODULE Spec2Model ----
(***************************************************************************)
(* The @sizes decorator of jollyqol/tensors.py: one validation pass of     *)
(* sizes_wrapper, from declaration intake to the call of the wrapped       *)
(* function or the ValueError it raises.                                   *)
(***************************************************************************)
EXTENDS Integers, Sequences, FiniteSets, TLC

\* ------------------------------------------------------------------ bounds
\* Longest pattern declared for the argument "a".
MaxPat == 3
\* Highest rank of the value passed as "a".
MaxRank == 3

\* --------------------------------------------------------------- data
\* A dimension token: an int, a str label or the Ellipsis object.
Exact(v) == [kind |-> "exact", val |-> v, label |-> ""]

Wild(l) == [kind |-> "wild", val |-> 0, label |-> l]

Ellipsis == [kind |-> "ellipsis", val |-> 0, label |-> ""]

\* Sizes a dimension of an actual shape takes.
DimValues == {1, 2}

\* Sizes written as exact tokens in a pattern.
ExactValues == {1}

Labels == {"N", "M"}

Tokens == {Exact(v) : v \in ExactValues} \cup {Wild(l) : l \in Labels} \cup {Ellipsis}

SeqsUpTo(S, n) == UNION {[1..k -> S] : k \in 0..n}

\* The parameters of the decorated function, def tensor_func(a, b).
parameters == {"a", "b"}

\* Names that may be declared; "q" is no parameter of tensor_func.
Names == parameters \cup {"q"}

\* Patterns declared per name: "a" carries the long patterns, over the label
\* "N"; "b" patterns of at most one token, over both labels; the pattern of
\* "q" is never looked at.
PatternsOf(n) ==
    CASE n = "a" -> SeqsUpTo(Tokens \ {Wild("M")}, MaxPat)
      [] n = "b" -> SeqsUpTo(Tokens, 1)
      [] OTHER -> {<<Exact(1)>>, <<Ellipsis, Ellipsis>>}

\* A tensor-like value (it has .shape) or a value without a shape.
Tensor(s) == [shaped |-> TRUE, shape |-> s]

NoShape == [shaped |-> FALSE, shape |-> <<>>]

ValuesOf(n) ==
    {NoShape} \cup {Tensor(s) : s \in SeqsUpTo(DimValues, IF n = "a" THEN MaxRank ELSE 1)}

\* Values the wrapped function returns.
RetVals == {"r1", "r2"}

None == "None"

\* The keyword arguments of sizes(**expected_shapes), in insertion order:
\* at most two declarations, no name twice.
NameSeqs ==
    {s \in SeqsUpTo(Names, 2) : \A i, j \in 1..Len(s) : i /= j => s[i] /= s[j]}

Range(s) == {s[i] : i \in 1..Len(s)}

VARIABLES
    expected_shapes,              \* sizes(**expected_shapes): <<[name, pattern]>>
    arguments,                    \* actual_func_bindings.arguments
    pc,                           \* position in sizes_wrapper
    collected_tensors,            \* <<[name, expected, actual]>>
    t_index,                      \* the tensor the matching loop is at
    exacts_good,
    wildcards,                    \* label -> set of observed sizes
    shape_mismatch_tensor_names,
    inconsistent_wildcards,
    tensor_strings,               \* <<[name, parts]>>
    error_msg,                    \* the headline of the ShapeMismatch message
    outcome,                      \* "running", "Accepted" or the error raised
    calls,                        \* times tensor_func was invoked
    funcRet,                      \* what tensor_func returned
    returned,                     \* what sizes_wrapper returned
    shapeTested,                  \* names whose value met hasattr(.., "shape")
    shapeRead,                    \* names whose .shape was read
    lengthChecked,                \* names whose len(actual) was compared
    unifyLog                      \* the calls of unify_dim, in order

vars ==
    <<expected_shapes, arguments, pc, collected_tensors, t_index, exacts_good, wildcards,
      shape_mismatch_tensor_names, inconsistent_wildcards, tensor_strings, error_msg,
      outcome, calls, funcRet, returned, shapeTested, shapeRead, lengthChecked, unifyLog>>

\* What is drawn for name n: one of `choices` when n is declared; a parameter
\* that is not declared is passed `other`, which the wrapper never looks at.
Declared(names, n, choices, other) == IF n \in Range(names) THEN choices ELSE {other}

NoMsg == [count |-> {}, wild |-> {}, static |-> FALSE]

\* The state on entry to sizes_wrapper: the decorator holds the declarations,
\* the call is bound to the signature, nothing is collected yet.
Init ==
    /\ \E names \in NameSeqs :
         \E pa \in Declared(names, "a", PatternsOf("a"), <<>>),
            pb \in Declared(names, "b", PatternsOf("b"), <<>>),
            pq \in Declared(names, "q", PatternsOf("q"), <<>>),
            va \in Declared(names, "a", ValuesOf("a"), NoShape),
            vb \in Declared(names, "b", ValuesOf("b"), NoShape) :
            LET pats == [a |-> pa, b |-> pb, q |-> pq]
            IN  /\ expected_shapes =
                     [i \in 1..Len(names) |-> [name |-> names[i], pattern |-> pats[names[i]]]]
                /\ arguments = [a |-> va, b |-> vb]
    /\ pc = "intake"
    /\ collected_tensors = <<>>
    /\ t_index = 0
    /\ exacts_good = TRUE
    /\ wildcards = <<>>
    /\ shape_mismatch_tensor_names = {}
    /\ inconsistent_wildcards = {}
    /\ tensor_strings = <<>>
    /\ error_msg = NoMsg
    /\ outcome = "running"
    /\ calls = 0
    /\ funcRet = None
    /\ returned = None
    /\ shapeTested = {}
    /\ shapeRead = {}
    /\ lengthChecked = {}
    /\ unifyLog = <<>>

Raise(error) ==
    /\ outcome' = error
    /\ pc' = "done"

\* ------------------------------------------------------- declaration intake
\* One iteration of `for expected_tensor_name, expected_shape in ...items()`.
NextDecl == expected_shapes[Len(collected_tensors) + 1]

IsParameter(name) == name \in parameters

IntakeUnknownArgument ==
    /\ pc = "intake"
    /\ Len(collected_tensors) < Len(expected_shapes)
    /\ ~IsParameter(NextDecl.name)
    /\ Raise("UnknownArgument")
    /\ UNCHANGED <<expected_shapes, arguments, collected_tensors, t_index, exacts_good,
                   wildcards, shape_mismatch_tensor_names, inconsistent_wildcards, tensor_strings,
                   error_msg, calls, funcRet, returned, shapeTested, shapeRead,
                   lengthChecked, unifyLog>>

IntakeNotShaped ==
    /\ pc = "intake"
    /\ Len(collected_tensors) < Len(expected_shapes)
    /\ IsParameter(NextDecl.name)
    /\ ~arguments[NextDecl.name].shaped
    /\ shapeTested' = shapeTested \cup {NextDecl.name}
    /\ Raise("NotShaped")
    /\ UNCHANGED <<expected_shapes, arguments, collected_tensors, t_index, exacts_good,
                   wildcards, shape_mismatch_tensor_names, inconsistent_wildcards, tensor_strings,
                   error_msg, calls, funcRet, returned, shapeRead, lengthChecked, unifyLog>>

IntakeCollect ==
    /\ pc = "intake"
    /\ Len(collected_tensors) < Len(expected_shapes)
    /\ IsParameter(NextDecl.name)
    /\ arguments[NextDecl.name].shaped
    /\ shapeTested' = shapeTested \cup {NextDecl.name}
    /\ shapeRead' = shapeRead \cup {NextDecl.name}
    /\ collected_tensors' =
         Append(collected_tensors,
                [name |-> NextDecl.name, expected |-> NextDecl.pattern,
                 actual |-> arguments[NextDecl.name].shape])
    /\ UNCHANGED <<expected_shapes, arguments, pc, t_index, exacts_good, wildcards,
                   shape_mismatch_tensor_names, inconsistent_wildcards, tensor_strings,
                   error_msg, outcome, calls, funcRet, returned, lengthChecked, unifyLog>>

\* Lines 57-73: the matcher's state is set up once every declaration is in.
BeginMatching ==
    /\ pc = "intake"
    /\ Len(collected_tensors) = Len(expected_shapes)
    /\ pc' = "match"
    /\ t_index' = 1
    /\ exacts_good' = TRUE
    /\ wildcards' = <<>>
    /\ shape_mismatch_tensor_names' = {}
    /\ UNCHANGED <<expected_shapes, arguments, collected_tensors, inconsistent_wildcards,
                   tensor_strings, error_msg, outcome, calls, funcRet, returned,
                   shapeTested, shapeRead, lengthChecked, unifyLog>>

\* ------------------------------------------------------------ python helpers
Min(x, y) == IF x < y THEN x ELSE y

Max(x, y) == IF x > y THEN x ELSE y

\* A sequence with the 0-based position of each element kept beside it.
Indexed(s) == [k \in 1..Len(s) |-> [val |-> s[k], pos |-> k - 1]]

\* A slice bound as Python clamps it.
PyIndex(i, n) == IF i < 0 THEN Max(i + n, 0) ELSE Min(i, n)

\* s[lo:hi]
PySlice(s, lo, hi) ==
    LET a == PyIndex(lo, Len(s))
        b == PyIndex(hi, Len(s))
    IN  IF a >= b THEN <<>> ELSE SubSeq(s, a + 1, b)

\* s[::-1]
Reverse(s) == [k \in 1..Len(s) |-> s[Len(s) + 1 - k]]

\* zip(xs, ys): stops at the shorter one.
Zip(xs, ys) == [k \in 1..Min(Len(xs), Len(ys)) |-> [e |-> xs[k], a |-> ys[k]]]

\* --------------------------------------------------------------- unification
\* Mutant of SetDefaultAdd: the new size replaces the set instead of joining it.
SetDefaultOverwrite(w, label, adim) ==
    IF label \in DOMAIN w
    THEN [w EXCEPT ![label] = {adim}]
    ELSE w @@ (label :> {adim})

\* wildcards.setdefault(wildcard_label, set()).add(adim)
SetDefaultAdd(w, label, adim) ==
    IF label \in DOMAIN w
    THEN [w EXCEPT ![label] = @ \cup {adim}]
    ELSE w @@ (label :> {adim})

\* unify_dim(edim, adim) on the matcher's state m; the call is logged with the
\* positions its two operands came from.  The last case is assert_never.
unify_dim(m, name, e, a) ==
    LET logged == Append(m.log, [name |-> name, epos |-> e.pos, apos |-> a.pos,
                                 edim |-> e.val, adim |-> a.val])
    IN  CASE e.val.kind = "exact" ->
               [m EXCEPT !.exacts_good = IF e.val.val /= a.val THEN FALSE ELSE @,
                         !.log = logged]
          [] e.val.kind = "wild" ->
               [m EXCEPT !.wildcards = SetDefaultAdd(@, e.val.label, a.val),
                         !.log = logged]
          [] OTHER -> [m EXCEPT !.log = logged]

\* for (edim, adim) in pairs: unify_dim(edim, adim)
RECURSIVE UnifyAll(_, _, _)
UnifyAll(m, name, pairs) ==
    IF pairs = <<>> THEN m
    ELSE UnifyAll(unify_dim(m, name, Head(pairs).e, Head(pairs).a), name, Tail(pairs))

\* `... in expected`
HasEllipsis(expected) == \E k \in 1..Len(expected) : expected[k] = Ellipsis

\* sum(1 for x in expected if x is ...)
EllipsisCount(expected) == Cardinality({k \in 1..Len(expected) : expected[k] = Ellipsis})

\* Mutant of TooManyEllipsis: two ellipses pass, three are refused.
TooManyEllipsisLax(expected) == EllipsisCount(expected) > 2

TooManyEllipsis(expected) == EllipsisCount(expected) > 1

\* expected.index(...)
EllipsisIndex(expected) ==
    CHOOSE k \in 0..(Len(expected) - 1) :
        /\ expected[k + 1] = Ellipsis
        /\ \A j \in 0..(k - 1) : expected[j + 1] /= Ellipsis

\* expected[:ellipsis_index]
PrefixOf(expected) == PySlice(expected, 0, EllipsisIndex(expected))

\* expected[ellipsis_index+1:]
SuffixOf(expected) == PySlice(expected, EllipsisIndex(expected) + 1, Len(expected))

\* Mutant of CountMismatch: with an ellipsis the test is >= instead of >.
CountMismatchStrict(expected, actual) ==
    IF ~HasEllipsis(expected)
    THEN Len(expected) /= Len(actual)
    ELSE Len(PrefixOf(expected)) + Len(SuffixOf(expected)) >= Len(actual)

\* The two length tests, lines 79 and 97.
CountMismatch(expected, actual) ==
    IF ~HasEllipsis(expected)
    THEN Len(expected) /= Len(actual)
    ELSE Len(PrefixOf(expected)) + Len(SuffixOf(expected)) > Len(actual)

\* Mutant of TailActual: the suffix is laid against the leading sizes.
TailActualLeft(actual, n) == PySlice(actual, 0, n)

\* actual[len(actual)-len(suffix):]
TailActual(actual, n) == PySlice(actual, Len(actual) - n, Len(actual))

\* The (edim, adim) pairs the loops at lines 83, 102 and 111 hand to unify_dim.
UnifyPairs(expected, actual) ==
    IF ~HasEllipsis(expected)
    THEN Zip(Indexed(expected), Indexed(actual))
    ELSE LET ellipsis_index == EllipsisIndex(expected)
             prefix == PySlice(Indexed(expected), 0, ellipsis_index)
             suffix == PySlice(Indexed(expected), ellipsis_index + 1, Len(expected))
         IN  Zip(prefix, PySlice(Indexed(actual), 0, Len(prefix)))
             \o (IF Len(suffix) > 0
                 THEN Zip(Reverse(suffix), Reverse(TailActual(Indexed(actual), Len(suffix))))
                 ELSE <<>>)

Matcher == [exacts_good |-> exacts_good, wildcards |-> wildcards, log |-> unifyLog]

\* One iteration of `for tname, (expected, actual) in collected_tensors.items()`.
NextTensor == collected_tensors[t_index]

\* Mutant of MatchMultipleEllipsis: the pattern is recorded as a count mismatch
\* and the loop goes on, instead of raising.
MatchMultipleEllipsisRecorded ==
    /\ pc = "match"
    /\ t_index <= Len(collected_tensors)
    /\ HasEllipsis(NextTensor.expected)
    /\ TooManyEllipsis(NextTensor.expected)
    /\ shape_mismatch_tensor_names' = shape_mismatch_tensor_names \cup {NextTensor.name}
    /\ t_index' = t_index + 1
    /\ UNCHANGED <<expected_shapes, arguments, pc, collected_tensors, exacts_good, wildcards,
                   inconsistent_wildcards, tensor_strings, error_msg, outcome, calls,
                   funcRet, returned, shapeTested, shapeRead, lengthChecked, unifyLog>>

MatchMultipleEllipsis ==
    /\ pc = "match"
    /\ t_index <= Len(collected_tensors)
    /\ HasEllipsis(NextTensor.expected)
    /\ TooManyEllipsis(NextTensor.expected)
    /\ Raise("MultipleEllipsis")
    /\ UNCHANGED <<expected_shapes, arguments, collected_tensors, t_index, exacts_good,
                   wildcards, shape_mismatch_tensor_names, inconsistent_wildcards,
                   tensor_strings, error_msg, calls, funcRet, returned, shapeTested,
                   shapeRead, lengthChecked, unifyLog>>

\* Mutant of MatchCountMismatch: the loop is left at the first count mismatch
\* (break instead of continue), so the tensors after it are never unified.
MatchCountMismatchBreak ==
    /\ pc = "match"
    /\ t_index <= Len(collected_tensors)
    /\ ~(HasEllipsis(NextTensor.expected) /\ TooManyEllipsis(NextTensor.expected))
    /\ CountMismatch(NextTensor.expected, NextTensor.actual)
    /\ lengthChecked' = lengthChecked \cup {NextTensor.name}
    /\ shape_mismatch_tensor_names' = shape_mismatch_tensor_names \cup {NextTensor.name}
    /\ t_index' = Len(collected_tensors) + 1
    /\ UNCHANGED <<expected_shapes, arguments, pc, collected_tensors, exacts_good, wildcards,
                   inconsistent_wildcards, tensor_strings, error_msg, outcome, calls,
                   funcRet, returned, shapeTested, shapeRead, unifyLog>>

MatchCountMismatch ==
    /\ pc = "match"
    /\ t_index <= Len(collected_tensors)
    /\ ~(HasEllipsis(NextTensor.expected) /\ TooManyEllipsis(NextTensor.expected))
    /\ CountMismatch(NextTensor.expected, NextTensor.actual)
    /\ lengthChecked' = lengthChecked \cup {NextTensor.name}
    /\ shape_mismatch_tensor_names' = shape_mismatch_tensor_names \cup {NextTensor.name}
    /\ t_index' = t_index + 1
    /\ UNCHANGED <<expected_shapes, arguments, pc, collected_tensors, exacts_good, wildcards,
                   inconsistent_wildcards, tensor_strings, error_msg, outcome, calls,
                   funcRet, returned, shapeTested, shapeRead, unifyLog>>

MatchUnify ==
    /\ pc = "match"
    /\ t_index <= Len(collected_tensors)
    /\ ~(HasEllipsis(NextTensor.expected) /\ TooManyEllipsis(NextTensor.expected))
    /\ ~CountMismatch(NextTensor.expected, NextTensor.actual)
    /\ lengthChecked' = lengthChecked \cup {NextTensor.name}
    /\ LET m == UnifyAll(Matcher, NextTensor.name,
                         UnifyPairs(NextTensor.expected, NextTensor.actual))
       IN  /\ exacts_good' = m.exacts_good
           /\ wildcards' = m.wildcards
           /\ unifyLog' = m.log
    /\ t_index' = t_index + 1
    /\ UNCHANGED <<expected_shapes, arguments, pc, collected_tensors,
                   shape_mismatch_tensor_names, inconsistent_wildcards, tensor_strings,
                   error_msg, outcome, calls, funcRet, returned, shapeTested, shapeRead>>

\* The loop at lines 75-115 over tensors none of which has two ellipses, from
\* matcher state m: the state after the last tensor.
RECURSIVE MatchAll(_, _)
MatchAll(m, tensors) ==
    IF tensors = <<>> THEN m
    ELSE LET t == Head(tensors)
         IN  IF CountMismatch(t.expected, t.actual)
             THEN MatchAll([m EXCEPT !.mismatched = @ \cup {t.name}], Tail(tensors))
             ELSE MatchAll(UnifyAll(m, t.name, UnifyPairs(t.expected, t.actual)),
                           Tail(tensors))

\* ------------------------------------------------------------------- decision
\* {key for key, value in wildcards.items() if len(value) != 1}
Inconsistent(w) == {key \in DOMAIN w : Cardinality(w[key]) /= 1}

CheckWildcards ==
    /\ pc = "match"
    /\ t_index > Len(collected_tensors)
    /\ inconsistent_wildcards' = Inconsistent(wildcards)
    /\ pc' = "decide"
    /\ UNCHANGED <<expected_shapes, arguments, collected_tensors, t_index, exacts_good,
                   wildcards, shape_mismatch_tensor_names, tensor_strings, error_msg,
                   outcome, calls, funcRet, returned, shapeTested, shapeRead,
                   lengthChecked, unifyLog>>

\* Mutant of Rejecting: the wildcard check is left out of the test.
RejectingNoWildcards(good, mismatched, inconsistent) ==
    ~good \/ mismatched /= {}

\* if not exacts_good or shape_mismatch_tensor_names or inconsistent_wildcards
Rejecting(good, mismatched, inconsistent) ==
    ~good \/ mismatched /= {} \/ inconsistent /= {}

\* Mutant of WrapperReturn: the call is made and its result dropped.
WrapperReturnNone(r) == None

\* return tensor_func(*args, **kwargs)
WrapperReturn(r) == r

\* Lines 57-123 as a function of collected_tensors: the flag, the binding table
\* and whether the call goes through.
Verdict(tensors) ==
    LET m == MatchAll([exacts_good |-> TRUE, wildcards |-> <<>>, log |-> <<>>,
                       mismatched |-> {}], tensors)
    IN  [exacts_good |-> m.exacts_good,
         wildcards |-> m.wildcards,
         accepted |-> ~Rejecting(m.exacts_good, m.mismatched, Inconsistent(m.wildcards))]

CallThrough ==
    /\ pc = "decide"
    /\ ~Rejecting(exacts_good, shape_mismatch_tensor_names, inconsistent_wildcards)
    /\ calls' = calls + 1
    /\ \E r \in RetVals :
         /\ funcRet' = r
         /\ returned' = WrapperReturn(r)
    /\ outcome' = "Accepted"
    /\ pc' = "done"
    /\ UNCHANGED <<expected_shapes, arguments, collected_tensors, t_index, exacts_good,
                   wildcards, shape_mismatch_tensor_names, inconsistent_wildcards,
                   tensor_strings, error_msg, shapeTested, shapeRead, lengthChecked,
                   unifyLog>>

\* ------------------------------------------------------------------ rendering
\* One element of `parts`.  kind is "matched" (str(adim)), "conflict"
\* (declared=actual in red), "label" (the wildcard's name alone), "ellipsis"
\* (the literal "..."), "count" ("Expected n dims, got m dims."),
\* "suffix" ("(Suffix mismatch?)") or "unknown" (f"{edim}?").
Part(kind, label, declared, actual) ==
    [kind |-> kind, label |-> label, declared |-> declared, actual |-> actual]

\* The `match edim` of the second pass, lines 134-147, 160-172 and 183-195.
RenderDim(edim, adim, inconsistent) ==
    CASE edim.kind = "exact" ->
           IF edim.val /= adim
           THEN Part("conflict", "", edim.val, adim)
           ELSE Part("matched", "", 0, adim)
      [] edim.kind = "wild" ->
           IF edim.label \in inconsistent
           THEN Part("conflict", edim.label, 0, adim)
           ELSE Part("label", edim.label, 0, 0)
      [] OTHER -> Part("unknown", "", 0, 0)

RenderPairs(pairs, inconsistent) ==
    [k \in 1..Len(pairs) |-> RenderDim(pairs[k].e, pairs[k].a, inconsistent)]

\* `parts` of one tensor without an ellipsis, lines 131-151.
PartsExact(expected, actual, inconsistent) ==
    IF Len(expected) /= Len(actual)
    THEN <<Part("count", "", Len(expected), Len(actual))>>
    ELSE RenderPairs(Zip(expected, actual), inconsistent)

\* `parts` of one tensor with an ellipsis, lines 153-195.
PartsEllipsis(expected, actual, inconsistent) ==
    LET prefix == PrefixOf(expected)
        suffix == SuffixOf(expected)
    IN  RenderPairs(Zip(prefix, PySlice(actual, 0, Len(prefix))), inconsistent)
        \o <<Part("ellipsis", "", 0, 0)>>
        \o (IF Len(prefix) + Len(suffix) > Len(actual)
            THEN <<Part("suffix", "", 0, 0)>>
            ELSE RenderPairs(Zip(suffix, TailActual(actual, Len(suffix))), inconsistent))

Parts(expected, actual, inconsistent) ==
    IF ~HasEllipsis(expected)
    THEN PartsExact(expected, actual, inconsistent)
    ELSE PartsEllipsis(expected, actual, inconsistent)

\* tensor_strings, lines 125-197: one string per entry of collected_tensors.
TensorStrings(tensors, inconsistent) ==
    [k \in 1..Len(tensors) |->
        [name |-> tensors[k].name,
         parts |-> Parts(tensors[k].expected, tensors[k].actual, inconsistent)]]

\* error_msg, lines 199-210: the three clauses, each present when its set is
\* non-empty or its flag is raised.
ErrorMsg(good, mismatched, inconsistent) ==
    [count |-> mismatched, wild |-> inconsistent, static |-> ~good]

RaiseShapeMismatch ==
    /\ pc = "decide"
    /\ Rejecting(exacts_good, shape_mismatch_tensor_names, inconsistent_wildcards)
    /\ tensor_strings' = TensorStrings(collected_tensors, inconsistent_wildcards)
    /\ error_msg' = ErrorMsg(exacts_good, shape_mismatch_tensor_names, inconsistent_wildcards)
    /\ Raise("ShapeMismatch")
    /\ UNCHANGED <<expected_shapes, arguments, collected_tensors, t_index, exacts_good,
                   wildcards, shape_mismatch_tensor_names, inconsistent_wildcards, calls,
                   funcRet, returned, shapeTested, shapeRead, lengthChecked, unifyLog>>

Next ==
    \/ IntakeUnknownArgument
    \/ IntakeNotShaped
    \/ IntakeCollect
    \/ BeginMatching
    \/ MatchMultipleEllipsis
    \/ MatchCountMismatch
    \/ MatchUnify
    \/ CheckWildcards
    \/ CallThrough
    \/ RaiseShapeMismatch

Spec == Init /\ [][Next]_vars

\* ----------------------------------------------------------------------
\* Properties
\* ----------------------------------------------------------------------
Errors == {"UnknownArgument", "NotShaped", "MultipleEllipsis", "ShapeMismatch"}

DeclIndex == 1..Len(expected_shapes)

\* Positions of the open-run markers of a pattern.
Markers(pattern) == {k \in 1..Len(pattern) : pattern[k].kind = "ellipsis"}

\* Every declared name is a parameter, every declared value is shaped and no
\* pattern has two open-run markers.
WellDeclared ==
    \A i \in DeclIndex :
        /\ expected_shapes[i].name \in parameters
        /\ arguments[expected_shapes[i].name].shaped
        /\ Cardinality(Markers(expected_shapes[i].pattern)) <= 1

\* The matching loop has left tensor k behind.
Processed(k) == pc \in {"match", "decide", "done"} /\ k \in 1..Len(collected_tensors) /\ k < t_index

\* The matching loop has run over every tensor.
MatchingOver == pc = "decide" \/ outcome \in {"Accepted", "ShapeMismatch"}

\* The 1-based position of the one open-run marker of a pattern.
Marker(pattern) == CHOOSE k \in Markers(pattern) : TRUE

PrefixLen(pattern) == Marker(pattern) - 1

SuffixLen(pattern) == Len(pattern) - Marker(pattern)

\* A dimension count that does not fit, as the patterns define it.
BadCount(t) ==
    IF Markers(t.expected) = {}
    THEN Len(t.expected) /= Len(t.actual)
    ELSE /\ Cardinality(Markers(t.expected)) = 1
         /\ PrefixLen(t.expected) + SuffixLen(t.expected) > Len(t.actual)

\* The 0-based <<pattern position, actual position>> pairs a well-counted
\* tensor is unified at: the prefix left-aligned, the suffix right-aligned.
Aligned(t) ==
    IF Markers(t.expected) = {}
    THEN {<<i, i>> : i \in 0..(Len(t.expected) - 1)}
    ELSE {<<i, i>> : i \in 0..(PrefixLen(t.expected) - 1)}
         \cup {<<PrefixLen(t.expected) + 1 + j, Len(t.actual) - SuffixLen(t.expected) + j>> :
                 j \in 0..(SuffixLen(t.expected) - 1)}

\* The 0-based positions of the middle run of a well-counted tensor.
Middle(t) == PrefixLen(t.expected)..(Len(t.actual) - SuffixLen(t.expected) - 1)

\* The tensors the loop has left behind whose dimension count fits.
Unified == {k \in 1..Len(collected_tensors) : Processed(k) /\ ~BadCount(collected_tensors[k])}

\* The sizes label l meets at its aligned occurrences in tensor t.
BoundIn(t, l) ==
    {t.actual[p[2] + 1] : p \in {q \in Aligned(t) : t.expected[q[1] + 1] = Wild(l)}}

\* The sizes label l is bound to over the well-counted tensors.
Observed(l) == UNION {BoundIn(collected_tensors[k], l) : k \in Unified}

\* C1: a call whose declarations are well formed is Accepted exactly when no
\* dimension-count mismatch was recorded, the exact-mismatch flag is unset and
\* no wildcard label is bound to more than one size; otherwise it is rejected
\* with the shape-mismatch error.
C1_AcceptedIff ==
    (pc = "done" /\ WellDeclared) =>
        /\ outcome \in {"Accepted", "ShapeMismatch"}
        /\ (outcome = "Accepted") <=>
              /\ shape_mismatch_tensor_names = {}
              /\ exacts_good
              /\ \A l \in DOMAIN wildcards : Cardinality(wildcards[l]) <= 1

C1_Witness ==
    /\ pc = "done"
    /\ WellDeclared
    /\ Len(collected_tensors) = 2
    /\ outcome = "ShapeMismatch"
    /\ exacts_good
    /\ shape_mismatch_tensor_names = {}

\* C2: tensor_func runs exactly once and its result is handed back unchanged
\* when the pass is Accepted; it has not run while validation is under way and
\* never runs when the pass ends in an error.
C2_CalledOnlyOnAccept ==
    /\ calls <= 1
    /\ outcome = "Accepted" => calls = 1 /\ funcRet \in RetVals /\ returned = funcRet
    /\ outcome \in Errors \cup {"running"} => calls = 0 /\ returned = None

C2_Witness ==
    /\ outcome = "Accepted"
    /\ calls = 1
    /\ Len(collected_tensors) = 2
    /\ returned = "r2"

\* C3: a wildcard label is inconsistent exactly when two of its bound
\* occurrences, in one argument or in two, observe different sizes; every such
\* label is listed in the diagnostic, and an Accepted call has none.
C3_WildcardConsistency ==
    MatchingOver =>
        \A l \in Labels :
            /\ l \in inconsistent_wildcards <=> Cardinality(Observed(l)) > 1
            /\ outcome = "ShapeMismatch" => (l \in error_msg.wild <=> Cardinality(Observed(l)) > 1)
            /\ outcome = "Accepted" => Cardinality(Observed(l)) <= 1

C3_Witness ==
    /\ outcome = "ShapeMismatch"
    /\ Len(collected_tensors) = 2
    /\ \E l \in error_msg.wild :
         /\ Cardinality(BoundIn(collected_tensors[1], l)) = 1
         /\ Cardinality(BoundIn(collected_tensors[2], l)) = 1
         /\ BoundIn(collected_tensors[1], l) /= BoundIn(collected_tensors[2], l)

\* C4: a tensor is recorded, and reported, as a dimension-count mismatch
\* exactly when its pattern has no open-run marker and another length than the
\* shape, or has one marker and a prefix and suffix longer together than the
\* shape; prefix and suffix filling the shape exactly is no mismatch.
C4_CountMismatch ==
    /\ \A k \in 1..Len(collected_tensors) :
          Processed(k) =>
             (collected_tensors[k].name \in shape_mismatch_tensor_names
                 <=> BadCount(collected_tensors[k]))
    /\ outcome = "ShapeMismatch" =>
          error_msg.count =
             {collected_tensors[k].name :
                 k \in {j \in 1..Len(collected_tensors) : BadCount(collected_tensors[j])}}

C4_Witness ==
    \E k \in 1..Len(collected_tensors) :
        LET t == collected_tensors[k]
        IN  /\ Processed(k)
            /\ Cardinality(Markers(t.expected)) = 1
            /\ PrefixLen(t.expected) + SuffixLen(t.expected) = Len(t.actual)
            /\ Len(t.actual) = 2
            /\ t.name \notin shape_mismatch_tensor_names

\* The unify_dim calls made for tensor t, as <<pattern position, actual position>>.
LogOf(t) == {k \in 1..Len(unifyLog) : unifyLog[k].name = t.name}

\* collected_tensors with the size at 0-based position p of tensor k set to v.
WithSize(k, p, v) == [collected_tensors EXCEPT ![k].actual[p + 1] = v]

\* C5: for a well-counted pattern with one open-run marker, prefix token i is
\* unified against actual[i] and suffix token j against
\* actual[len(actual)-len(suffix)+j], each token once and no actual position
\* twice; the sizes of the middle run are unified against nothing, and changing
\* one leaves the exact-mismatch flag, the binding table and the outcome as
\* they are.
C5_EllipsisAlignment ==
    MatchingOver =>
        /\ Verdict(collected_tensors).exacts_good = exacts_good
        /\ Verdict(collected_tensors).wildcards = wildcards
        /\ pc = "done" => (Verdict(collected_tensors).accepted <=> outcome = "Accepted")
        /\ \A k \in 1..Len(collected_tensors) :
             LET t == collected_tensors[k]
             IN  (Cardinality(Markers(t.expected)) = 1 /\ ~BadCount(t)) =>
                    /\ {<<unifyLog[i].epos, unifyLog[i].apos>> : i \in LogOf(t)} = Aligned(t)
                    /\ Cardinality(LogOf(t)) = Len(t.expected) - 1
                    /\ \A i, j \in LogOf(t) : unifyLog[i].apos = unifyLog[j].apos => i = j
                    /\ \A i \in LogOf(t) :
                          /\ unifyLog[i].edim = t.expected[unifyLog[i].epos + 1]
                          /\ unifyLog[i].adim = t.actual[unifyLog[i].apos + 1]
                    /\ \A p \in Middle(t) :
                          /\ \A i \in LogOf(t) : unifyLog[i].apos /= p
                          /\ \A v \in DimValues :
                                Verdict(WithSize(k, p, v)) = Verdict(collected_tensors)

C5_Witness ==
    /\ MatchingOver
    /\ \E k \in 1..Len(collected_tensors) :
         LET t == collected_tensors[k]
         IN  /\ Cardinality(Markers(t.expected)) = 1
             /\ PrefixLen(t.expected) = 1
             /\ SuffixLen(t.expected) = 1
             /\ Len(t.actual) = 3
             /\ t.actual[2] /= t.actual[3]
\* Every declared name is a parameter and every declared value is shaped.
IntakePasses ==
    \A i \in DeclIndex :
        /\ expected_shapes[i].name \in parameters
        /\ arguments[expected_shapes[i].name].shaped

SomeMultipleEllipsis ==
    \E i \in DeclIndex : Cardinality(Markers(expected_shapes[i].pattern)) > 1

SomeUnknownName == \E i \in DeclIndex : expected_shapes[i].name \notin parameters

C7_Claim ==
    /\ (pc = "done" /\ SomeUnknownName) => outcome = "UnknownArgument"
    /\ outcome = "UnknownArgument" => shapeTested = {} /\ shapeRead = {}

\* C8: when a declared name is no parameter or a declared pattern has more
\* than one open-run marker, the error raised is never ShapeMismatch.
C8_NoMasking ==
    (SomeUnknownName \/ SomeMultipleEllipsis) => outcome /= "ShapeMismatch"

C8_Witness ==
    /\ pc = "done"
    /\ outcome = "MultipleEllipsis"
    /\ shape_mismatch_tensor_names /= {}

\* Tensor t has a fault: its dimension count does not fit, or at one of its
\* aligned positions an exact size differs or an inconsistent label stands.
HasFault(t) ==
    \/ BadCount(t)
    \/ \E p \in Aligned(t) :
          LET edim == t.expected[p[1] + 1]
              adim == t.actual[p[2] + 1]
          IN  \/ edim.kind = "exact" /\ edim.val /= adim
              \/ edim.kind = "wild" /\ edim.label \in inconsistent_wildcards

Detailed(name) == \E i \in 1..Len(tensor_strings) : tensor_strings[i].name = name

\* C9 as claimed: the detail list of a Rejected pass has an entry for a
\* declared argument exactly when that argument has a fault.
C9_Claim ==
    outcome = "ShapeMismatch" =>
        \A k \in 1..Len(collected_tensors) :
            Detailed(collected_tensors[k].name) <=> HasFault(collected_tensors[k])

\* C10 as claimed: the detail of an argument recorded as a dimension-count
\* mismatch is a terse message and renders none of its positions, neither as a
\* matched value nor as a declared=actual conflict.
C10_Claim ==
    outcome = "ShapeMismatch" =>
        \A i \in 1..Len(tensor_strings) :
            tensor_strings[i].name \in shape_mismatch_tensor_names =>
                /\ \E j \in 1..Len(tensor_strings[i].parts) :
                      tensor_strings[i].parts[j].kind \in {"count", "suffix"}
                /\ \A j \in 1..Len(tensor_strings[i].parts) :
                      tensor_strings[i].parts[j].kind \notin {"matched", "conflict"}
\* Tensor t has an exact token that differs from the size aligned with it.
ExactFault(t) ==
    \E p \in Aligned(t) :
        /\ t.expected[p[1] + 1].kind = "exact"
        /\ t.expected[p[1] + 1].val /= t.actual[p[2] + 1]

TensorIndex == 1..Len(collected_tensors)

\* C11: the pass does not stop at the first fault.  In a Rejected pass every
\* well-counted tensor has been unified at all its aligned positions, whatever
\* faults the others have, and a count-mismatched tensor has been unified at
\* none; the one diagnostic names every count-mismatched tensor, lists every
\* label that is inconsistent over the well-counted tensors and states the
\* exact-mismatch flag collected over all of them.
C11_AllFaultsCollected ==
    outcome = "ShapeMismatch" =>
        /\ \A k \in TensorIndex :
              LET t == collected_tensors[k]
              IN  IF BadCount(t)
                  THEN LogOf(t) = {}
                  ELSE {<<unifyLog[i].epos, unifyLog[i].apos>> : i \in LogOf(t)} = Aligned(t)
        /\ error_msg.count =
              {collected_tensors[k].name : k \in {j \in TensorIndex : BadCount(collected_tensors[j])}}
        /\ error_msg.wild =
              {l \in Labels :
                  Cardinality(UNION {BoundIn(collected_tensors[k], l) :
                      k \in {j \in TensorIndex : ~BadCount(collected_tensors[j])}}) > 1}
        /\ error_msg.static <=>
              \E k \in TensorIndex :
                  ~BadCount(collected_tensors[k]) /\ ExactFault(collected_tensors[k])
        /\ \A l \in Labels :
              IF l \in DOMAIN wildcards
              THEN wildcards[l] =
                      UNION {BoundIn(collected_tensors[k], l) :
                          k \in {j \in TensorIndex : ~BadCount(collected_tensors[j])}}
              ELSE \A k \in TensorIndex :
                      ~BadCount(collected_tensors[k]) => BoundIn(collected_tensors[k], l) = {}

C11_Witness ==
    /\ outcome = "ShapeMismatch"
    /\ Len(collected_tensors) = 2
    /\ BadCount(collected_tensors[1])
    /\ ~BadCount(collected_tensors[2])
    /\ error_msg.count = {collected_tensors[1].name}
    /\ error_msg.wild /= {}
    /\ error_msg.static
====
